---- MODULE Spec2Model ----
(***************************************************************************)
(* Model of enterprise_value.py: seven closed-form valuation formulas.     *)
(* The functions are pure; the state machine is a caller that picks the    *)
(* scalar inputs of one function, evaluates it, and consumes the outcome.  *)
(*                                                                         *)
(* Numbers are exact rationals <<numerator, denominator>> in lowest terms  *)
(* with a positive denominator: the formulas are checked in exact          *)
(* arithmetic, not in IEEE-754 rounding.  An outcome of a Python           *)
(* expression is a record [kind, val]:                                     *)
(*   "float"              a real number, val is its exact value            *)
(*   "real"               a nonzero real number whose value is not         *)
(*                        computed here (x ** y, x > 0, y not an integer)  *)
(*   "complex"            a Python complex number (value not computed)     *)
(*   "ZeroDivisionError"  the exception Python raises                      *)
(*   "None"               the None object (an omitted optional argument)   *)
(***************************************************************************)
EXTENDS Integers, Sequences, FiniteSets, TLC

VARIABLES pc, fn, args, result

vars == <<pc, fn, args, result>>

(* ------------------------------ bounds --------------------------------- *)

\* nopat, fcff and ic range over the integers -MaxAmount .. MaxAmount
MaxAmount == 2

\* r, f, g and roic range over the halves -MaxRateHalves/2 .. MaxRateHalves/2
MaxRateHalves == 4

\* t of a direct call ranges over the halves up to MaxPeriodHalves/2
MaxPeriodHalves == 3

\* NextPeriod steps t through the integers up to MaxT
MaxT == 3

(* ------------------------- exact rationals ----------------------------- *)

Abs(n) == IF n < 0 THEN -n ELSE n

RECURSIVE GCD(_, _)
GCD(a, b) == IF b = 0 THEN a ELSE GCD(b, a % b)

Q(n, d) ==
  LET s == IF d < 0 THEN -1 ELSE 1
      k == GCD(Abs(n), Abs(d))
  IN  <<(s * n) \div k, (s * d) \div k>>

Zero == Q(0, 1)
One == Q(1, 1)

QAdd(a, b) == Q(a[1] * b[2] + b[1] * a[2], a[2] * b[2])
QSub(a, b) == Q(a[1] * b[2] - b[1] * a[2], a[2] * b[2])
QMul(a, b) == Q(a[1] * b[1], a[2] * b[2])
QDiv(a, b) == Q(a[1] * b[2], a[2] * b[1])
QLt(a, b) == a[1] * b[2] < b[1] * a[2]
QLe(a, b) == a[1] * b[2] <= b[1] * a[2]
QAbs(a) == <<Abs(a[1]), a[2]>>
IsInt(a) == a[2] = 1

RECURSIVE QPowInt(_, _)
QPowInt(a, n) ==
  IF n = 0 THEN One
  ELSE IF n > 0 THEN QMul(a, QPowInt(a, n - 1))
  ELSE QDiv(One, QPowInt(a, -n))

(* ------------------------- Python outcomes ----------------------------- *)

F(q) == [kind |-> "float", val |-> q]
PyNone == [kind |-> "None", val |-> Zero]
Real == [kind |-> "real", val |-> Zero]
Complex == [kind |-> "complex", val |-> Zero]
ZeroDivisionError == [kind |-> "ZeroDivisionError", val |-> Zero]

Raised(a) == a.kind = "ZeroDivisionError"
IsZero(a) == a.kind = "float" /\ a.val = Zero

\* a + b and a - b; the source applies them to exact operands only
PyAdd(a, b) ==
  CASE Raised(a) -> a
    [] Raised(b) -> b
    [] a.kind = "float" /\ b.kind = "float" -> F(QAdd(a.val, b.val))

PySub(a, b) ==
  CASE Raised(a) -> a
    [] Raised(b) -> b
    [] a.kind = "float" /\ b.kind = "float" -> F(QSub(a.val, b.val))

\* a * b
PyMul(a, b) ==
  IF Raised(a) THEN a
  ELSE IF Raised(b) THEN b
  ELSE IF a.kind = "complex" \/ b.kind = "complex" THEN Complex
  ELSE IF IsZero(a) \/ IsZero(b) THEN F(Zero)
  ELSE IF a.kind = "real" \/ b.kind = "real" THEN Real
  ELSE F(QMul(a.val, b.val))

\* a / b: a zero divisor raises; the complex and "real" outcomes of ** are
\* never zero
PyTrueDiv(a, b) ==
  IF Raised(a) THEN a
  ELSE IF Raised(b) THEN b
  ELSE IF IsZero(b) THEN ZeroDivisionError
  ELSE IF a.kind = "complex" \/ b.kind = "complex" THEN Complex
  ELSE IF IsZero(a) THEN F(Zero)
  ELSE IF a.kind = "real" \/ b.kind = "real" THEN Real
  ELSE F(QDiv(a.val, b.val))

\* a ** b on exact operands: x ** 0 is 1 for every x, 0 ** y is 0 for y > 0
\* and raises for y < 0, a negative base with a non-integer exponent gives a
\* complex number
PyPow(a, b) ==
  IF Raised(a) THEN a
  ELSE IF Raised(b) THEN b
  ELSE IF b.val = Zero THEN F(One)
  ELSE IF a.val = Zero
       THEN IF QLt(Zero, b.val) THEN F(Zero) ELSE ZeroDivisionError
  ELSE IF IsInt(b.val) THEN F(QPowInt(a.val, b.val[1]))
  ELSE IF QLt(a.val, Zero) THEN Complex
  ELSE IF a.val = One THEN F(One)
  ELSE Real

(* --------------------------- the functions ----------------------------- *)

\* slip: "*" written for "**"
value_Times(fcff, r, t) == PyMul(PyTrueDiv(fcff, PyAdd(F(One), r)), t)

value(fcff, r, t) == PyTrueDiv(fcff, PyPow(PyAdd(F(One), r), t))

\* slip: "if g:" written for "if g is not None:"
future_free_cash_flow_Truthy(nopat, ic, g) ==
  LET ic1 == IF g # PyNone /\ g # F(Zero) THEN PyMul(ic, g) ELSE ic
  IN  PySub(nopat, ic1)

future_free_cash_flow(nopat, ic, g) ==
  LET ic1 == IF g # PyNone THEN PyMul(ic, g) ELSE ic
  IN  PySub(nopat, ic1)

\* slip: a zero divisor answered with 0 instead of raising
return_on_invested_capital_Guarded(nopat, ic) ==
  IF IsZero(ic) THEN F(Zero) ELSE PyTrueDiv(nopat, ic)

return_on_invested_capital(nopat, ic) == PyTrueDiv(nopat, ic)

\* slip: "roic / g" written for "g / roic"
value_2_Swapped(nopat, g, roic, r) ==
  PyTrueDiv(PyMul(nopat, PySub(F(One), PyTrueDiv(roic, g))), PySub(r, g))

\* slip: "r + g" written for "r - g"
value_2_Plus(nopat, g, roic, r) ==
  PyTrueDiv(PyMul(nopat, PySub(F(One), PyTrueDiv(g, roic))), PyAdd(r, g))

value_2(nopat, g, roic, r) ==
  PyTrueDiv(PyMul(nopat, PySub(F(One), PyTrueDiv(g, roic))), PySub(r, g))

\* slip: the exponents are t instead of t - 1
economic_profit_ExponentT(nopat_1, ic_0, r, f, g, t) ==
  LET term1 == PySub(PyTrueDiv(nopat_1, ic_0), r)
      term2 == PyPow(PySub(F(One), f), t)
      term3 == PyPow(PyAdd(F(One), g), t)
  IN  IF Raised(term1) THEN term1
      ELSE IF Raised(term2) THEN term2
      ELSE IF Raised(term3) THEN term3
      ELSE PyMul(PyMul(PyMul(term1, term2), term3), ic_0)

\* slip: the spread grows at (1 + f) instead of fading at (1 - f)
economic_profit_PlusF(nopat_1, ic_0, r, f, g, t) ==
  LET term1 == PySub(PyTrueDiv(nopat_1, ic_0), r)
      term2 == PyPow(PyAdd(F(One), f), PySub(t, F(One)))
      term3 == PyPow(PyAdd(F(One), g), PySub(t, F(One)))
  IN  IF Raised(term1) THEN term1
      ELSE IF Raised(term2) THEN term2
      ELSE IF Raised(term3) THEN term3
      ELSE PyMul(PyMul(PyMul(term1, term2), term3), ic_0)

economic_profit(nopat_1, ic_0, r, f, g, t) ==
  LET term1 == PySub(PyTrueDiv(nopat_1, ic_0), r)
      term2 == PyPow(PySub(F(One), f), PySub(t, F(One)))
      term3 == PyPow(PyAdd(F(One), g), PySub(t, F(One)))
  IN  IF Raised(term1) THEN term1
      ELSE IF Raised(term2) THEN term2
      ELSE IF Raised(term3) THEN term3
      ELSE PyMul(PyMul(PyMul(term1, term2), term3), ic_0)

\* slip: the trailing "+ 1.0" of term2 is dropped
EV_fade_NoPlusOne(nopat_1, ic_0, r, f, g) ==
  LET ep_1 == PyMul(PySub(PyTrueDiv(nopat_1, ic_0), r), ic_0)
      term2 == PySub(r, PyMul(PyAdd(F(One), g), PySub(F(One), f)))
  IN  PyAdd(ic_0, PyTrueDiv(ep_1, term2))

EV_fade(nopat_1, ic_0, r, f, g) ==
  LET ep_1 == PyMul(PySub(PyTrueDiv(nopat_1, ic_0), r), ic_0)
      term2 == PyAdd(PySub(r, PyMul(PyAdd(F(One), g), PySub(F(One), f))), F(One))
  IN  PyAdd(ic_0, PyTrueDiv(ep_1, term2))

\* slip: "g + f" written for "g - f"
EV_fade2_PlusF(nopat_1, roic_1, r, f, g) ==
  LET enterprise_value ==
        PyMul(nopat_1, PySub(F(One), PyTrueDiv(PyAdd(g, f), roic_1)))
      discount == PyAdd(PySub(r, g), f)
  IN  PyTrueDiv(enterprise_value, discount)

EV_fade2(nopat_1, roic_1, r, f, g) ==
  LET enterprise_value ==
        PyMul(nopat_1, PySub(F(One), PyTrueDiv(PySub(g, f), roic_1)))
      discount == PyAdd(PySub(r, g), f)
  IN  PyTrueDiv(enterprise_value, discount)

(* ----------------------------- the caller ------------------------------ *)

Amounts == {F(Q(n, 1)) : n \in -MaxAmount .. MaxAmount}
Rates == {F(Q(k, 2)) : k \in -MaxRateHalves .. MaxRateHalves}
Periods == {F(Q(k, 2)) : k \in -MaxPeriodHalves .. MaxPeriodHalves}
FadePeriods == {F(Q(k, 2)) : k \in 0 .. MaxPeriodHalves}

NoArgs == [none |-> PyNone]

Init ==
  /\ pc = "idle"
  /\ fn = "none"
  /\ args = NoArgs
  /\ result = PyNone

CallValue ==
  /\ pc = "idle"
  /\ \E fcff \in Amounts, r \in Rates, t \in Periods :
       /\ args' = [fcff |-> fcff, r |-> r, t |-> t]
       /\ result' = value(fcff, r, t)
  /\ fn' = "value"
  /\ pc' = "done"

CallFutureFreeCashFlow ==
  /\ pc = "idle"
  /\ \E nopat \in Amounts, ic \in Amounts, g \in Rates \cup {PyNone} :
       /\ args' = [nopat |-> nopat, ic |-> ic, g |-> g]
       /\ result' = future_free_cash_flow(nopat, ic, g)
  /\ fn' = "future_free_cash_flow"
  /\ pc' = "done"

CallReturnOnInvestedCapital ==
  /\ pc = "idle"
  /\ \E nopat \in Amounts, ic \in Amounts :
       /\ args' = [nopat |-> nopat, ic |-> ic]
       /\ result' = return_on_invested_capital(nopat, ic)
  /\ fn' = "return_on_invested_capital"
  /\ pc' = "done"

CallValue2 ==
  /\ pc = "idle"
  /\ \E nopat \in Amounts, g \in Rates, roic \in Rates, r \in Rates :
       /\ args' = [nopat |-> nopat, g |-> g, roic |-> roic, r |-> r]
       /\ result' = value_2(nopat, g, roic, r)
  /\ fn' = "value_2"
  /\ pc' = "done"

\* economic_profit(nopat_1, ic_0, r, f, g, t) with t given
CallEconomicProfit ==
  /\ pc = "idle"
  /\ \E nopat_1 \in Amounts, ic_0 \in Amounts, r \in Rates, f \in Rates,
        g \in Rates, t \in FadePeriods :
       /\ args' = [nopat_1 |-> nopat_1, ic_0 |-> ic_0, r |-> r, f |-> f,
                   g |-> g, t |-> t, t_given |-> TRUE]
       /\ result' = economic_profit(nopat_1, ic_0, r, f, g, t)
  /\ fn' = "economic_profit"
  /\ pc' = "done"

\* economic_profit(nopat_1, ic_0, r, f, g): t takes its default, 1
CallEconomicProfitDefault ==
  /\ pc = "idle"
  /\ \E nopat_1 \in Amounts, ic_0 \in Amounts, r \in Rates, f \in Rates,
        g \in Rates :
       /\ args' = [nopat_1 |-> nopat_1, ic_0 |-> ic_0, r |-> r, f |-> f,
                   g |-> g, t |-> F(One), t_given |-> FALSE]
       /\ result' = economic_profit(nopat_1, ic_0, r, f, g, F(One))
  /\ fn' = "economic_profit"
  /\ pc' = "done"

\* the caller evaluates economic_profit again, one period later
NextPeriod ==
  /\ pc = "done"
  /\ fn = "economic_profit"
  /\ IsInt(args.t.val)
  /\ args.t.val[1] >= 1
  /\ args.t.val[1] < MaxT
  /\ LET t1 == F(QAdd(args.t.val, One))
     IN  /\ args' = [args EXCEPT !.t = t1, !.t_given = TRUE]
         /\ result' = economic_profit(args.nopat_1, args.ic_0, args.r,
                                      args.f, args.g, t1)
  /\ UNCHANGED <<pc, fn>>

CallEVFade ==
  /\ pc = "idle"
  /\ \E nopat_1 \in Amounts, ic_0 \in Amounts, r \in Rates, f \in Rates,
        g \in Rates :
       /\ args' = [nopat_1 |-> nopat_1, ic_0 |-> ic_0, r |-> r, f |-> f,
                   g |-> g]
       /\ result' = EV_fade(nopat_1, ic_0, r, f, g)
  /\ fn' = "EV_fade"
  /\ pc' = "done"

CallEVFade2 ==
  /\ pc = "idle"
  /\ \E nopat_1 \in Amounts, roic_1 \in Rates, r \in Rates, f \in Rates,
        g \in Rates :
       /\ args' = [nopat_1 |-> nopat_1, roic_1 |-> roic_1, r |-> r,
                   f |-> f, g |-> g]
       /\ result' = EV_fade2(nopat_1, roic_1, r, f, g)
  /\ fn' = "EV_fade2"
  /\ pc' = "done"

\* the caller consumes the outcome
Return ==
  /\ pc = "done"
  /\ pc' = "idle"
  /\ fn' = "none"
  /\ args' = NoArgs
  /\ result' = PyNone

Next ==
  \/ CallValue
  \/ CallFutureFreeCashFlow
  \/ CallReturnOnInvestedCapital
  \/ CallValue2
  \/ CallEconomicProfit
  \/ CallEconomicProfitDefault
  \/ NextPeriod
  \/ CallEVFade
  \/ CallEVFade2
  \/ Return

Spec == Init /\ [][Next]_vars

(* ------------------------------ claims --------------------------------- *)

Done(f) == pc = "done" /\ fn = f

\* The specification's DomainError is the exception Python raises for an
\* undefined operation; the only one these expressions can raise is
\* ZeroDivisionError.
IsDomainError(x) == x.kind = "ZeroDivisionError"

\* C1: future_free_cash_flow returns nopat - ic*g when g is supplied (g = 0
\* included, which returns nopat) and nopat - ic when g is not supplied.
C1_TwoModes ==
  Done("future_free_cash_flow") =>
    /\ args.g = PyNone => result = F(QSub(args.nopat.val, args.ic.val))
    /\ args.g # PyNone =>
         result = F(QSub(args.nopat.val, QMul(args.ic.val, args.g.val)))
    /\ args.g = F(Zero) => result = args.nopat

C1_Witness ==
  /\ Done("future_free_cash_flow")
  /\ args.g = F(Zero)
  /\ args.ic # F(Zero)
  /\ result = args.nopat

\* C2: return_on_invested_capital returns nopat / ic for ic # 0 and fails
\* with a DomainError, returning nothing, for ic = 0.
C2_RoicOrDomainError ==
  Done("return_on_invested_capital") =>
    IF args.ic = F(Zero)
    THEN IsDomainError(result)
    ELSE result = F(QDiv(args.nopat.val, args.ic.val))

C2_Witness ==
  /\ Done("return_on_invested_capital")
  /\ args.ic = F(Zero)
  /\ args.nopat # F(Zero)
  /\ IsDomainError(result)

\* C3: value_2 fails with a DomainError when roic = 0 or r = g, and returns
\* (nopat * (1 - g/roic)) / (r - g) otherwise, r < g included.
C3_PerpetuityOrDomainError ==
  Done("value_2") =>
    IF args.roic = F(Zero) \/ args.r = args.g
    THEN IsDomainError(result)
    ELSE result =
           F(QDiv(QMul(args.nopat.val,
                       QSub(One, QDiv(args.g.val, args.roic.val))),
                  QSub(args.r.val, args.g.val)))

C3_Witness ==
  /\ Done("value_2")
  /\ args.roic # F(Zero)
  /\ QLt(args.r.val, args.g.val)
  /\ result.kind = "float"
  /\ result # F(Zero)

\* the denominator r - (1+g)(1-f) + 1 of EV_fade
FadeDenominator ==
  QAdd(QSub(args.r.val, QMul(QAdd(One, args.g.val), QSub(One, args.f.val))),
       One)

\* C4: EV_fade fails with a DomainError when ic_0 = 0 or
\* r - (1+g)(1-f) + 1 = 0, and returns ic_0 + ep_1 / (r - (1+g)(1-f) + 1)
\* with ep_1 = ((nopat_1/ic_0) - r) * ic_0 otherwise.
C4_FadeOrDomainError ==
  Done("EV_fade") =>
    IF args.ic_0 = F(Zero) \/ FadeDenominator = Zero
    THEN IsDomainError(result)
    ELSE result =
           F(QAdd(args.ic_0.val,
                  QDiv(QMul(QSub(QDiv(args.nopat_1.val, args.ic_0.val),
                                 args.r.val),
                            args.ic_0.val),
                       FadeDenominator)))

C4_Witness ==
  /\ Done("EV_fade")
  /\ args.ic_0 # F(Zero)
  /\ FadeDenominator = Zero
  /\ IsDomainError(result)

\* C5: value fails with a DomainError for every input with 1 + r <= 0 and a
\* non-integer t; it returns no complex number or other value there.
C5_NegativeBaseRejected ==
  (/\ Done("value")
   /\ QLe(QAdd(One, args.r.val), Zero)
   /\ ~IsInt(args.t.val)) => IsDomainError(result)

\* C6: zero discounting is the identity: value(fcff, r, 0) = fcff for every
\* fcff and every r > -1.
C6_ZeroDiscounting ==
  (/\ Done("value")
   /\ QLt(Q(-1, 1), args.r.val)
   /\ args.t = F(Zero)) => result = args.fcff

C6_Witness ==
  /\ Done("value")
  /\ QLt(Q(-1, 1), args.r.val)
  /\ args.r # F(Zero)
  /\ args.t = F(Zero)
  /\ args.fcff # F(Zero)
  /\ result = args.fcff

\* C7: economic_profit with t = 1, given or by default, and ic_0 # 0 equals
\* ((nopat_1/ic_0) - r) * ic_0 whatever f and g are, f = 1 and g = -1
\* included.
C7_BasePeriod ==
  (/\ Done("economic_profit")
   /\ args.t = F(One)
   /\ args.ic_0 # F(Zero)) =>
    result = F(QMul(QSub(QDiv(args.nopat_1.val, args.ic_0.val), args.r.val),
                    args.ic_0.val))

C7_Witness ==
  /\ Done("economic_profit")
  /\ ~args.t_given
  /\ args.f = F(One)
  /\ args.g = F(Q(-1, 1))
  /\ args.ic_0 # F(Zero)
  /\ result.kind = "float"
  /\ result # F(Zero)

\* EV_fade2 called with roic_1 = nopat_1 / ic_0, from the arguments of an
\* EV_fade call
FromRoic ==
  EV_fade2(args.nopat_1, return_on_invested_capital(args.nopat_1, args.ic_0),
           args.r, args.f, args.g)

BothDefined ==
  /\ Done("EV_fade")
  /\ args.ic_0 # F(Zero)
  /\ result.kind = "float"
  /\ FromRoic.kind = "float"

\* C8 as stated: whenever both are defined, EV_fade2 with
\* roic_1 = nopat_1/ic_0 equals EV_fade.
C8_Restatement == BothDefined => FromRoic = result

\* C8 amended: whenever both are defined, EV_fade2 with roic_1 = nopat_1/ic_0
\* equals EV_fade exactly when g = 0, f = 0 or nopat_1 = r * ic_0.
C8_EqualIffNoCrossTerm ==
  BothDefined =>
    ((FromRoic = result) <=>
       \/ args.g = F(Zero)
       \/ args.f = F(Zero)
       \/ args.nopat_1.val = QMul(args.r.val, args.ic_0.val))

C8_Witness ==
  /\ BothDefined
  /\ args.g # F(Zero)
  /\ args.f # F(Zero)
  /\ args.nopat_1.val = QMul(args.r.val, args.ic_0.val)
  /\ FromRoic = result

\* a NextPeriod step of an economic_profit call with ic_0 # 0 and f > g
FadeStep ==
  /\ Done("economic_profit")
  /\ pc' = "done"
  /\ args' # args
  /\ args.ic_0 # F(Zero)
  /\ QLt(args.g.val, args.f.val)

\* economic_profit(t+1) = economic_profit(t) * (1-f) * (1+g), no larger in
\* magnitude, and strictly smaller unless economic_profit(t) = 0
Decays ==
  /\ result.kind = "float"
  /\ result'.kind = "float"
  /\ result'.val = QMul(QMul(result.val, QSub(One, args.f.val)),
                        QAdd(One, args.g.val))
  /\ QLe(QAbs(result'.val), QAbs(result.val))
  /\ result.val # Zero => QLt(QAbs(result'.val), QAbs(result.val))

C10_GrowthAddsNoValue ==
  (/\ Done("value_2")
   /\ args.roic = args.r
   /\ args.r # F(Zero)
   /\ args.g # args.r) => result = F(QDiv(args.nopat.val, args.r.val))

C10_Witness ==
  /\ Done("value_2")
  /\ args.roic = args.r
  /\ args.r # F(Zero)
  /\ args.g # args.r
  /\ args.g # F(Zero)
  /\ args.nopat # F(Zero)
  /\ result = F(QDiv(args.nopat.val, args.r.val))

====
